---- MODULE Spec2Model ----
(***************************************************************************)
(* Motion detector (main.py): the per-frame loop of main(), the session    *)
(* buffer list_of_interesting_frames, write_frames_as_video and the        *)
(* classifier contains_various_black_pixels.                               *)
(*                                                                         *)
(* A raw capture is [kind |-> "raw", id, shape]; id is the index of the    *)
(* cap.read() call that produced it.  A processed frame (mask) is          *)
(* [kind |-> "mask", shape, px], px the flattened pixel array.  The        *)
(* OpenCV stages before the distance transform (KNN background model,      *)
(* Otsu threshold, closing) are library code: their result, the distance   *)
(* transform, is drawn from a bounded family of non-negative arrays.       *)
(* Distances are integers; 0.02 * max is kept exact in hundredths.         *)
(***************************************************************************)
EXTENDS Integers, Sequences, FiniteSets, TLC

\* ---------------------------------------------------------------- bounds
\* Number of cap.read() calls that return a frame before the stream ends.
MaxFrames == 25
\* Shape of the camera's frames in the main loop (pixels = FrameW * FrameH).
FrameW == 1
FrameH == 2
\* Shapes drawn for the segmentation / classification specification.
MaxW == 5
MaxH == 4
\* Largest value of a distance transform.
MaxDist == 60

\* ------------------------------------------------------ program constants
\* len(list_of_frames) < 20: return
MinFrames == 20
\* threshold = ((width * height) / 100) * 10
BlackPercent == 10
\* opencv.threshold(dist_transform, 0.02 * max, 255, 0): 0.02 in hundredths
DistPercent == 2
\* maxval of opencv.threshold
MaxVal == 255

VARIABLES
  pc,                              \* position in main()
  camShape,                        \* shape of the frames the camera delivers
  clock,                           \* number of cap.read() calls so far (the time)
  capture,                         \* result of the last cap.read()
  dist_transform,                  \* opencv.distanceTransform(closing, ...)
  frame,                           \* the thresholded mask of the current capture
  is_current_frame_interesting,
  was_previous_frame_interesting,  \* {} is None, {TRUE}, {FALSE}
  list_of_interesting_frames,
  bgApplied,                       \* number of background_subtractor.apply calls
  videos,                          \* the VideoWriters created, in order
  idx,                             \* position of the write loop in list_of_frames
  diskFull,                        \* the sink's disk has filled up
  keyPending,                      \* 'q' was pressed and not yet polled
  capReleased,                     \* cap.release() was called
  motionRun,                       \* history: consecutive motion decisions up to the last classified frame
  endedRun                         \* history: length of the run the last classified frame ended

vars == <<pc, camShape, clock, capture, dist_transform, frame, is_current_frame_interesting,
          was_previous_frame_interesting, list_of_interesting_frames, bgApplied,
          videos, idx, diskFull, keyPending, capReleased, motionRun, endedRun>>

\* ---------------------------------------------------------------- values
None == [kind |-> "none"]

RawFrame(id, shape) == [kind |-> "raw", id |-> id, shape |-> shape]

Mask(shape, px) == [kind |-> "mask", shape |-> shape, px |-> px]

FrameShape == <<FrameW, FrameH>>

Shapes == (1..MaxW) \X (1..MaxH)

\* Python truthiness of was_previous_frame_interesting (None and False are
\* falsy).  The mutant tests "is not None" instead.
TruthyNotNone(x) == x # {}

Truthy(x) == TRUE \in x

\* The distance transforms drawn for a shape: b zero pixels, then s pixels at
\* distance 1, the rest at MaxDist.
DistFamily(shape) ==
  LET n == shape[1] * shape[2]
  IN  { [i \in 1..n |-> IF i <= b THEN 0 ELSE IF i <= b + s THEN 1 ELSE MaxDist] :
          <<b, s>> \in { q \in (0..n) \X (0..n) : q[1] + q[2] <= n } }

\* ----------------------------------------------------------- segmentation
RECURSIVE ArrayMaxFrom(_, _)
ArrayMaxFrom(a, i) ==
  IF i > Len(a) THEN 0
  ELSE LET m == ArrayMaxFrom(a, i + 1) IN IF a[i] > m THEN a[i] ELSE m

\* dist_transform.max()
ArrayMax(a) == ArrayMaxFrom(a, 1)

\* 0.02 * dist_transform.max(), in hundredths
RelThreshold(a) == DistPercent * ArrayMax(a)

\* opencv.threshold(src, thresh, maxval, THRESH_BINARY): dst = maxval where
\* src > thresh, else 0.  thresh100 is the threshold in hundredths.
ThresholdGE(src, thresh100, maxval) ==
  [i \in 1..Len(src) |-> IF 100 * src[i] >= thresh100 THEN maxval ELSE 0]

Threshold(src, thresh100, maxval) ==
  [i \in 1..Len(src) |-> IF 100 * src[i] > thresh100 THEN maxval ELSE 0]

\* The mutant counts the pixels that are not black.
CountNonBlack(px) == Cardinality({i \in 1..Len(px) : px[i] # 0})

\* ------------------------------------------------------------- classifier
\* np.sum(frame == 0)
CountBlack(px) == Cardinality({i \in 1..Len(px) : px[i] = 0})

\* contains_various_black_pixels(frame): n_black_pixels >= ((w * h) / 100) * 10,
\* both sides times 100.  (The double evaluation of ((w*h)/100)*10 is exact at
\* every multiple of ten up to 2 * 10^7 pixels, so the rational comparison is
\* the one the code makes.)
contains_various_black_pixels_strict(m) ==
  100 * CountBlack(m.px) > (m.shape[1] * m.shape[2]) * BlackPercent

contains_various_black_pixels(m) ==
  100 * CountBlack(m.px) >= (m.shape[1] * m.shape[2]) * BlackPercent

\* The mutant starts with was_previous_frame_interesting = True.
InitAtInteresting(shape) ==
  /\ pc = "read"
  /\ camShape = shape
  /\ clock = 0
  /\ capture = None
  /\ dist_transform = <<>>
  /\ frame = None
  /\ is_current_frame_interesting = FALSE
  /\ was_previous_frame_interesting = {TRUE}
  /\ list_of_interesting_frames = <<>>
  /\ bgApplied = 0
  /\ videos = <<>>
  /\ idx = 0
  /\ diskFull = FALSE
  /\ keyPending = FALSE
  /\ capReleased = FALSE
  /\ motionRun = 0
  /\ endedRun = 0

\* ------------------------------------------------------------------- Init
InitAt(shape) ==
  /\ pc = "read"
  /\ camShape = shape
  /\ clock = 0
  /\ capture = None
  /\ dist_transform = <<>>
  /\ frame = None
  /\ is_current_frame_interesting = FALSE
  /\ was_previous_frame_interesting = {}
  /\ list_of_interesting_frames = <<>>
  /\ bgApplied = 0
  /\ videos = <<>>
  /\ idx = 0
  /\ diskFull = FALSE
  /\ keyPending = FALSE
  /\ capReleased = FALSE
  /\ motionRun = 0
  /\ endedRun = 0

Init == InitAt(FrameShape)

\* ------------------------------------------------------------- main loop
\* ret, capture = cap.read(); if capture is None: break.  The stream holds at
\* most MaxFrames frames; after them (or earlier) the read yields None.
ReadNoCheck ==
  /\ pc = "read"
  /\ \E c \in {None} \cup (IF clock < MaxFrames THEN {RawFrame(clock + 1, camShape)} ELSE {}) :
       /\ capture' = c
       /\ pc' = "process"
  /\ clock' = clock + 1
  /\ UNCHANGED <<camShape, dist_transform, frame, is_current_frame_interesting,
                 was_previous_frame_interesting, list_of_interesting_frames, bgApplied,
                 videos, idx, diskFull, keyPending, capReleased, motionRun, endedRun>>

Read ==
  /\ pc = "read"
  /\ \E c \in {None} \cup (IF clock < MaxFrames THEN {RawFrame(clock + 1, camShape)} ELSE {}) :
       /\ capture' = c
       /\ pc' = IF c = None THEN "release" ELSE "process"
  /\ clock' = clock + 1
  /\ UNCHANGED <<camShape, dist_transform, frame, is_current_frame_interesting,
                 was_previous_frame_interesting, list_of_interesting_frames, bgApplied,
                 videos, idx, diskFull, keyPending, capReleased, motionRun, endedRun>>

\* The mutant freezes the background model while a session is buffered.
ProcessFrozen ==
  /\ pc = "process"
  /\ IF capture = None
     THEN /\ pc' = "error"
          /\ UNCHANGED <<dist_transform, frame, is_current_frame_interesting, bgApplied,
                         motionRun, endedRun>>
     ELSE \E d \in DistFamily(capture.shape) :
            LET m == Mask(capture.shape, Threshold(d, RelThreshold(d), MaxVal))
                interesting == contains_various_black_pixels(m)
            IN  /\ bgApplied' = IF list_of_interesting_frames = <<>>
                              THEN bgApplied + 1 ELSE bgApplied
                /\ dist_transform' = d
                /\ frame' = m
                /\ is_current_frame_interesting' = interesting
                /\ motionRun' = IF interesting THEN motionRun + 1 ELSE 0
                /\ endedRun' = IF interesting THEN 0 ELSE motionRun
                /\ pc' = "rule"
  /\ UNCHANGED <<camShape, clock, capture, was_previous_frame_interesting,
                 list_of_interesting_frames, videos, idx, diskFull, keyPending,
                 capReleased>>

\* capture.shape; background_subtractor.apply(capture); threshold, closing,
\* distanceTransform; threshold at 0.02 * max; contains_various_black_pixels.
\* capture.shape of None raises AttributeError.
Process ==
  /\ pc = "process"
  /\ IF capture = None
     THEN /\ pc' = "error"
          /\ UNCHANGED <<dist_transform, frame, is_current_frame_interesting, bgApplied,
                         motionRun, endedRun>>
     ELSE \E d \in DistFamily(capture.shape) :
            LET m == Mask(capture.shape, Threshold(d, RelThreshold(d), MaxVal))
                interesting == contains_various_black_pixels(m)
            IN  /\ bgApplied' = bgApplied + 1
                /\ dist_transform' = d
                /\ frame' = m
                /\ is_current_frame_interesting' = interesting
                /\ motionRun' = IF interesting THEN motionRun + 1 ELSE 0
                /\ endedRun' = IF interesting THEN 0 ELSE motionRun
                /\ pc' = "rule"
  /\ UNCHANGED <<camShape, clock, capture, was_previous_frame_interesting,
                 list_of_interesting_frames, videos, idx, diskFull, keyPending,
                 capReleased>>

\* The mutant writes the session out as soon as it holds 20 frames.
AppendFrameFlushing ==
  /\ pc = "rule"
  /\ Truthy(was_previous_frame_interesting)
  /\ is_current_frame_interesting
  /\ list_of_interesting_frames' = Append(list_of_interesting_frames, capture)
  /\ pc' = IF Len(list_of_interesting_frames) + 1 >= MinFrames THEN "flush" ELSE "end"
  /\ UNCHANGED <<camShape, clock, capture, dist_transform, frame,
                 is_current_frame_interesting, was_previous_frame_interesting, bgApplied,
                 videos, idx, diskFull, keyPending, capReleased, motionRun, endedRun>>

\* if was_previous_frame_interesting: if is_current_frame_interesting:
\*     list_of_interesting_frames.append(capture)
AppendMask ==
  /\ pc = "rule"
  /\ Truthy(was_previous_frame_interesting)
  /\ is_current_frame_interesting
  /\ list_of_interesting_frames' = Append(list_of_interesting_frames, frame)
  /\ pc' = "end"
  /\ UNCHANGED <<camShape, clock, capture, dist_transform, frame,
                 is_current_frame_interesting, was_previous_frame_interesting, bgApplied,
                 videos, idx, diskFull, keyPending, capReleased, motionRun, endedRun>>

AppendFrame ==
  /\ pc = "rule"
  /\ Truthy(was_previous_frame_interesting)
  /\ is_current_frame_interesting
  /\ list_of_interesting_frames' = Append(list_of_interesting_frames, capture)
  /\ pc' = "end"
  /\ UNCHANGED <<camShape, clock, capture, dist_transform, frame,
                 is_current_frame_interesting, was_previous_frame_interesting, bgApplied,
                 videos, idx, diskFull, keyPending, capReleased, motionRun, endedRun>>

\* The mutant appends the current (non-motion) frame before it flushes.
SessionEndedAppends ==
  /\ pc = "rule"
  /\ Truthy(was_previous_frame_interesting)
  /\ ~is_current_frame_interesting
  /\ pc' = "flush"
  /\ list_of_interesting_frames' = Append(list_of_interesting_frames, capture)
  /\ UNCHANGED <<camShape, clock, capture, dist_transform, frame,
                 is_current_frame_interesting, was_previous_frame_interesting,
                 bgApplied, videos, idx, diskFull, keyPending,
                 capReleased, motionRun, endedRun>>

\* else: write_frames_as_video(list_of_interesting_frames)  (the call)
SessionEnded ==
  /\ pc = "rule"
  /\ Truthy(was_previous_frame_interesting)
  /\ ~is_current_frame_interesting
  /\ pc' = "flush"
  /\ UNCHANGED <<camShape, clock, capture, dist_transform, frame,
                 is_current_frame_interesting, was_previous_frame_interesting,
                 list_of_interesting_frames, bgApplied, videos, idx, diskFull, keyPending,
                 capReleased, motionRun, endedRun>>

\* was_previous_frame_interesting is falsy: neither branch runs.
NoMutationAppends ==
  /\ pc = "rule"
  /\ ~Truthy(was_previous_frame_interesting)
  /\ list_of_interesting_frames' =
       IF is_current_frame_interesting
       THEN Append(list_of_interesting_frames, capture)
       ELSE list_of_interesting_frames
  /\ pc' = "end"
  /\ UNCHANGED <<camShape, clock, capture, dist_transform, frame,
                 is_current_frame_interesting, was_previous_frame_interesting, bgApplied,
                 videos, idx, diskFull, keyPending, capReleased, motionRun, endedRun>>

NoMutation ==
  /\ pc = "rule"
  /\ ~Truthy(was_previous_frame_interesting)
  /\ pc' = "end"
  /\ UNCHANGED <<camShape, clock, capture, dist_transform, frame,
                 is_current_frame_interesting, was_previous_frame_interesting,
                 list_of_interesting_frames, bgApplied, videos, idx, diskFull, keyPending,
                 capReleased, motionRun, endedRun>>

\* The mutant names the file by the time the session's first frame was buffered.
session_start_date_time ==
  IF list_of_interesting_frames = <<>> THEN clock ELSE list_of_interesting_frames[1].id

\* ------------------------------------------------- write_frames_as_video
\* get_current_date_time(): datetime.now(), in units of the clock
get_current_date_time == clock

\* len(list_of_frames) < 20
TooShortLE(list_of_frames) == Len(list_of_frames) <= MinFrames

TooShort(list_of_frames) == Len(list_of_frames) < MinFrames

\* if len < 20: return.  Otherwise the file name is built from the current
\* time and the VideoWriter is created; it may fail to open, which the code
\* does not look at.
WriteOpen ==
  /\ pc = "flush"
  /\ IF TooShort(list_of_interesting_frames)
     THEN /\ pc' = "clear"
          /\ UNCHANGED <<videos, idx>>
     ELSE \E opened \in BOOLEAN :
            /\ videos' = Append(videos, [path |-> get_current_date_time,
                                         opened |-> opened,
                                         calls |-> <<>>,
                                         stored |-> 0,
                                         released |-> FALSE,
                                         outcome |-> None])
            /\ idx' = 1
            /\ pc' = "writing"
  /\ UNCHANGED <<camShape, clock, capture, dist_transform, frame,
                 is_current_frame_interesting, was_previous_frame_interesting,
                 list_of_interesting_frames, bgApplied, diskFull, keyPending, capReleased,
                 motionRun, endedRun>>

\* The mutant polls the key inside the write loop and leaves on 'q'.
WriteFramePolling ==
  /\ pc = "writing"
  /\ idx <= Len(list_of_interesting_frames)
  /\ LET v == videos[Len(videos)]
     IN  videos' = [videos EXCEPT ![Len(videos)] =
                      [v EXCEPT !.calls = Append(v.calls, list_of_interesting_frames[idx]),
                                !.stored = IF v.opened /\ ~diskFull
                                           THEN v.stored + 1 ELSE v.stored]]
  /\ idx' = idx + 1
  /\ pc' = IF keyPending THEN "release" ELSE pc
  /\ UNCHANGED <<camShape, clock, capture, dist_transform, frame,
                 is_current_frame_interesting, was_previous_frame_interesting,
                 list_of_interesting_frames, bgApplied, diskFull, keyPending, capReleased,
                 motionRun, endedRun>>

\* for frame_to_write in list_of_frames: out.write(frame_to_write).  A writer
\* that did not open, or whose disk is full, stores nothing and reports nothing.
WriteFrame ==
  /\ pc = "writing"
  /\ idx <= Len(list_of_interesting_frames)
  /\ LET v == videos[Len(videos)]
     IN  videos' = [videos EXCEPT ![Len(videos)] =
                      [v EXCEPT !.calls = Append(v.calls, list_of_interesting_frames[idx]),
                                !.stored = IF v.opened /\ ~diskFull
                                           THEN v.stored + 1 ELSE v.stored]]
  /\ idx' = idx + 1
  /\ UNCHANGED <<pc, camShape, clock, capture, dist_transform, frame,
                 is_current_frame_interesting, was_previous_frame_interesting,
                 list_of_interesting_frames, bgApplied, diskFull, keyPending, capReleased,
                 motionRun, endedRun>>

\* What main() gets back from write_frames_as_video once the writer is
\* released: no exception is raised, the last line printed is 'completed
\* writing file', and the function falls off its end (returns None), whether
\* or not the writer opened and stored the frames.
FlushOutcome(sinkFailed) ==
  [raised |-> FALSE, printed |-> "completed writing file", returned |-> "None"]

\* The sink failed on this video: it did not open, or stored fewer frames
\* than were written to it.
SinkFailed(v) == ~v.opened \/ v.stored < Len(v.calls)

\* out.release(); print('completed writing file: ...'); return to main().
WriteRelease ==
  /\ pc = "writing"
  /\ idx > Len(list_of_interesting_frames)
  /\ videos' = [videos EXCEPT ![Len(videos)].released = TRUE,
                              ![Len(videos)].outcome =
                                 FlushOutcome(SinkFailed(videos[Len(videos)]))]
  /\ idx' = 0
  /\ pc' = "clear"
  /\ UNCHANGED <<camShape, clock, capture, dist_transform, frame,
                 is_current_frame_interesting, was_previous_frame_interesting,
                 list_of_interesting_frames, bgApplied, diskFull, keyPending, capReleased,
                 motionRun, endedRun>>

\* The sink's disk fills up while a video is being written.
DiskFull ==
  /\ pc = "writing"
  /\ ~diskFull
  /\ diskFull' = TRUE
  /\ UNCHANGED <<pc, camShape, clock, capture, dist_transform, frame,
                 is_current_frame_interesting, was_previous_frame_interesting,
                 list_of_interesting_frames, bgApplied, videos, idx, keyPending,
                 capReleased, motionRun, endedRun>>

ClearIfWritten ==
  /\ pc = "clear"
  /\ list_of_interesting_frames' =
       IF TooShort(list_of_interesting_frames)
       THEN list_of_interesting_frames ELSE <<>>
  /\ pc' = "end"
  /\ UNCHANGED <<camShape, clock, capture, dist_transform, frame,
                 is_current_frame_interesting, was_previous_frame_interesting, bgApplied,
                 videos, idx, diskFull, keyPending, capReleased, motionRun, endedRun>>

\* list_of_interesting_frames.clear().  The mutant leaves the list as it is.
ClearSkipped ==
  /\ pc = "clear"
  /\ pc' = "end"
  /\ UNCHANGED <<camShape, clock, capture, dist_transform, frame,
                 is_current_frame_interesting, was_previous_frame_interesting,
                 list_of_interesting_frames, bgApplied, videos, idx, diskFull,
                 keyPending, capReleased, motionRun, endedRun>>

Clear ==
  /\ pc = "clear"
  /\ list_of_interesting_frames' = <<>>
  /\ pc' = "end"
  /\ UNCHANGED <<camShape, clock, capture, dist_transform, frame,
                 is_current_frame_interesting, was_previous_frame_interesting, bgApplied,
                 videos, idx, diskFull, keyPending, capReleased, motionRun, endedRun>>

\* The mutant has the assignment of l.87 inside the if block of l.75.
EndIterationIndented ==
  /\ pc = "end"
  /\ was_previous_frame_interesting' =
       IF Truthy(was_previous_frame_interesting)
       THEN {is_current_frame_interesting}
       ELSE was_previous_frame_interesting
  /\ keyPending' = FALSE
  /\ pc' = IF keyPending THEN "release" ELSE "read"
  /\ UNCHANGED <<camShape, clock, capture, dist_transform, frame,
                 is_current_frame_interesting, list_of_interesting_frames, bgApplied,
                 videos, idx, diskFull, capReleased, motionRun, endedRun>>

\* was_previous_frame_interesting = is_current_frame_interesting; imshow;
\* if waitKey(1) & 0xFF == ord('q'): break
EndIteration ==
  /\ pc = "end"
  /\ was_previous_frame_interesting' = {is_current_frame_interesting}
  /\ keyPending' = FALSE
  /\ pc' = IF keyPending THEN "release" ELSE "read"
  /\ UNCHANGED <<camShape, clock, capture, dist_transform, frame,
                 is_current_frame_interesting, list_of_interesting_frames, bgApplied,
                 videos, idx, diskFull, capReleased, motionRun, endedRun>>

\* The user presses 'q' (the external stop request); waitKey sees it at the
\* end of the iteration.
PressQ ==
  /\ pc \notin {"release", "done", "error"}
  /\ ~keyPending
  /\ keyPending' = TRUE
  /\ UNCHANGED <<pc, camShape, clock, capture, dist_transform, frame,
                 is_current_frame_interesting, was_previous_frame_interesting,
                 list_of_interesting_frames, bgApplied, videos, idx, diskFull,
                 capReleased, motionRun, endedRun>>

\* cap.release(); opencv.destroyAllWindows(); main returns.  The mutant
\* flushes the buffered session first.
ReleaseFlushing ==
  /\ pc = "release"
  /\ capReleased' = TRUE
  /\ videos' = IF TooShort(list_of_interesting_frames) THEN videos
               ELSE Append(videos, [path |-> get_current_date_time,
                                    opened |-> TRUE,
                                    calls |-> list_of_interesting_frames,
                                    stored |-> Len(list_of_interesting_frames),
                                    released |-> TRUE,
                                    outcome |-> FlushOutcome(FALSE)])
  /\ pc' = "done"
  /\ UNCHANGED <<camShape, clock, capture, dist_transform, frame,
                 is_current_frame_interesting, was_previous_frame_interesting,
                 list_of_interesting_frames, bgApplied, idx, diskFull, keyPending,
                 motionRun, endedRun>>

Release ==
  /\ pc = "release"
  /\ capReleased' = TRUE
  /\ pc' = "done"
  /\ UNCHANGED <<camShape, clock, capture, dist_transform, frame,
                 is_current_frame_interesting, was_previous_frame_interesting,
                 list_of_interesting_frames, bgApplied, videos, idx, diskFull, keyPending,
                 motionRun, endedRun>>

Next ==
  \/ Read
  \/ Process
  \/ AppendFrame
  \/ SessionEnded
  \/ NoMutation
  \/ WriteOpen
  \/ WriteFrame
  \/ WriteRelease
  \/ DiskFull
  \/ Clear
  \/ EndIteration
  \/ PressQ
  \/ Release

Spec == Init /\ [][Next]_vars

\* ------------------------------------------- segmentation / classification
\* One frame of any shape up to MaxW x MaxH has been read; Process segments
\* and classifies it.
InitSeg ==
  /\ \E shape \in Shapes : InitAt(shape)

NextSeg == (clock = 0 /\ Read) \/ Process

SpecSeg == InitSeg /\ [][NextSeg]_vars
\* ================================================================ claims
buffer == list_of_interesting_frames

\* The frames of the motion run of n frames whose first frame has id `first`,
\* without that first frame, in acquisition order.
RunWithoutFirst(first, n) == [i \in 1..(n - 1) |-> RawFrame(first + i, camShape)]

\* The current capture has been classified (the iteration is past Process).
Classified == capture # None /\ pc \notin {"process", "error"}

\* The loop stands between two iterations, or has left the loop.
IterationEnd == pc \in {"read", "release", "done"}

\* Videos whose writer was created in the current iteration.
VideosNow == {i \in DOMAIN videos : videos[i].path = clock}

C2_RunMinusFirst ==
  /\ (pc = "flush" /\ Classified) =>
       /\ endedRun >= 1
       /\ Len(buffer) = endedRun - 1
       /\ buffer = RunWithoutFirst(clock - endedRun, endedRun)
  /\ (pc \in {"clear", "end"} /\ Classified /\ endedRun = 22) =>
       /\ Cardinality(VideosNow) = 1
       /\ \A i \in VideosNow :
            /\ Len(videos[i].calls) = 21
            /\ videos[i].calls = RunWithoutFirst(clock - 22, 22)

W2_Run22Written ==
  /\ pc = "end"
  /\ Classified
  /\ endedRun = 22
  /\ clock >= 24
  /\ Len(videos) = 1
  /\ Len(videos[1].calls) = 21

\* C3: between iterations the buffer is non-empty only if the two most recent
\* classifier outputs were both motion.
C3_NonEmptyOnlyAfterTwoMotion ==
  IterationEnd => (buffer # <<>> => motionRun >= 2)

W3_BufferHeld ==
  /\ pc = "read"
  /\ buffer # <<>>
  /\ motionRun >= 2

\* C4: while the previous decision is not motion, no step changes the buffer,
\* writes to the sink or starts a flush; and the first frame of the current
\* (or just ended) motion run is never in the buffer.
C4_NoMutationAfterNonMotion ==
  /\ [][was_previous_frame_interesting # {TRUE} =>
          /\ buffer' = buffer
          /\ videos' = videos
          /\ pc' \notin {"flush", "writing", "clear"}]_vars
  /\ [](Classified =>
          \A i \in DOMAIN buffer :
            buffer[i].id # bgApplied - (motionRun + endedRun) + (IF motionRun > 0 THEN 1 ELSE 0))

W4_MotionAfterNonMotion ==
  /\ pc = "end"
  /\ was_previous_frame_interesting = {FALSE}
  /\ is_current_frame_interesting
  /\ motionRun = 1
  /\ buffer = <<>>
\* C5: when the previous and the current decision are both motion, the rule
\* appends exactly the raw current capture at the end of the buffer and
\* touches nothing else; for decisions [F, T, T, T, F] over the first five
\* frames (ids 1..5) the buffer is empty after frame 2, <<3>> after frame 3,
\* <<3, 4>> after frame 4, and frame 5 flushes and discards it without any
\* sink call.
C5_AppendRawCurrent ==
  /\ [][(pc = "rule" /\ pc' # "rule" /\ was_previous_frame_interesting = {TRUE}
           /\ is_current_frame_interesting) =>
          /\ capture = RawFrame(clock, camShape)
          /\ buffer' = Append(buffer, capture)
          /\ videos' = videos]_vars
  /\ []((Classified /\ pc # "rule" /\ clock = 2 /\ motionRun = 1) => buffer = <<>>)
  /\ []((Classified /\ pc # "rule" /\ clock = 3 /\ motionRun = 2) =>
          buffer = <<RawFrame(3, camShape)>>)
  /\ []((Classified /\ pc # "rule" /\ clock = 4 /\ motionRun = 3) =>
          buffer = <<RawFrame(3, camShape), RawFrame(4, camShape)>>)
  /\ []((Classified /\ clock = 5 /\ endedRun = 3) =>
          /\ videos = <<>>
          /\ pc \notin {"writing"}
          /\ pc \in {"rule", "flush", "clear"} =>
               buffer = <<RawFrame(3, camShape), RawFrame(4, camShape)>>
          /\ pc \in {"end", "read", "release", "done"} => buffer = <<>>)

W5_ScenarioDiscarded ==
  /\ pc = "read"
  /\ Classified
  /\ clock = 5
  /\ endedRun = 3
  /\ buffer = <<>>
  /\ videos = <<>>

\* Number of pixels of a flattened array that are 0.
RECURSIVE ZeroPixelsFrom(_, _)
ZeroPixelsFrom(px, i) ==
  IF i > Len(px) THEN 0
  ELSE (IF px[i] = 0 THEN 1 ELSE 0) + ZeroPixelsFrom(px, i + 1)

C7_NoFlushOnTermination ==
  [][(pc \in {"release", "done"} \/ pc' \in {"release", "done"}) =>
       videos' = videos]_vars

W7_LongBufferLost ==
  /\ pc = "done"
  /\ Len(buffer) >= MinFrames
  /\ videos = <<>>

\* C8: a read that yields None ends the loop on that iteration: the result
\* is not passed to the background model, the classifier or the session rule,
\* no error is raised, and the capture device is released on exit.
C8_NullFrameEndsLoop ==
  /\ [][(pc = "read" /\ clock' = clock + 1 /\ capture' = None) =>
          /\ pc' = "release"
          /\ bgApplied' = bgApplied
          /\ frame' = frame
          /\ is_current_frame_interesting' = is_current_frame_interesting
          /\ was_previous_frame_interesting' = was_previous_frame_interesting
          /\ buffer' = buffer
          /\ videos' = videos]_vars
  /\ [](pc # "error")
  /\ []((capture = None /\ clock > 0) => pc \in {"release", "done"})
  /\ [](pc = "done" => capReleased)

W8_EndOfStreamReleased ==
  /\ pc = "done"
  /\ capture = None
  /\ clock >= 3
  /\ bgApplied = clock - 1
  /\ capReleased

\* C9: a flush whose sink failed (did not open, or stored fewer frames than
\* were written) gives its caller an outcome that differs from the outcome of
\* a successful flush.
C9_SinkFailureSurfaced ==
  \A i \in DOMAIN videos :
    (videos[i].released /\ SinkFailed(videos[i])) =>
       videos[i].outcome # FlushOutcome(FALSE)

\* C10: when the distance transform is zero everywhere, the threshold at 2%
\* of its maximum raises nothing and gives a mask that is zero everywhere.
C10_DegenerateTransform ==
  /\ pc # "error"
  /\ (pc = "rule" /\ Classified /\ \A i \in DOMAIN dist_transform : dist_transform[i] = 0) =>
        /\ DOMAIN frame.px = DOMAIN dist_transform
        /\ \A i \in DOMAIN frame.px : frame.px[i] = 0

W10_AllZeroTransform ==
  /\ pc = "rule"
  /\ Classified
  /\ Len(dist_transform) >= 2
  /\ \A i \in DOMAIN dist_transform : dist_transform[i] = 0
  /\ \A i \in DOMAIN frame.px : frame.px[i] = 0
\* C11: on an iteration whose previous decision was motion and whose current
\* decision is not, the buffer is empty once the rule has run, whether the
\* session was written (length >= 20) or discarded; so in a later run the
\* buffer holds no frame acquired before that run began.
C11_BufferEmptyAfterFlush ==
  /\ (Classified /\ endedRun >= 1 /\ pc \in {"end", "read", "release", "done"}) =>
        buffer = <<>>
  /\ (Classified /\ motionRun >= 1) =>
        \A i \in DOMAIN buffer : buffer[i].id > clock - motionRun

W11_WrittenThenEmpty ==
  /\ pc = "end"
  /\ Classified
  /\ endedRun > MinFrames
  /\ Len(videos) = 1
  /\ videos[1].released
  /\ buffer = <<>>
\* C12: after every fully processed frame was_previous_frame_interesting is
\* that frame's decision, whichever branch of the rule ran; while a frame is
\* being processed the flag is the decision of the frame before it (None
\* for the first frame), never an older one.
C12_PreviousIsLastDecision ==
  /\ [][(pc = "end" /\ pc' # "end") =>
          was_previous_frame_interesting' = {is_current_frame_interesting}]_vars
  /\ []((IterationEnd /\ bgApplied >= 1) =>
          was_previous_frame_interesting = {motionRun >= 1})
  /\ []((Classified /\ pc \in {"rule", "flush", "writing", "clear", "end"}) =>
          was_previous_frame_interesting =
            IF clock = 1 THEN {} ELSE {motionRun >= 2 \/ endedRun >= 1})

W12_FlagAfterFlush ==
  /\ pc = "read"
  /\ Classified
  /\ endedRun >= 1
  /\ was_previous_frame_interesting = {FALSE}
\* C13: was_previous_frame_interesting starts as None, so the first frame of
\* the stream never triggers an append or a flush, even when it is classified
\* as motion: it is never in the buffer nor written to the sink.
C13_FirstFrameNeverCaptured ==
  /\ clock = 0 => was_previous_frame_interesting = {}
  /\ (clock = 1 /\ capture # None) =>
        /\ buffer = <<>>
        /\ videos = <<>>
        /\ pc \notin {"flush", "writing", "clear"}
  /\ \A i \in DOMAIN buffer : buffer[i] # RawFrame(1, camShape)
  /\ \A v \in DOMAIN videos : \A i \in DOMAIN videos[v].calls :
        videos[v].calls[i] # RawFrame(1, camShape)

W13_FirstFrameMotion ==
  /\ pc = "read"
  /\ clock = 1
  /\ capture = RawFrame(1, camShape)
  /\ is_current_frame_interesting
  /\ was_previous_frame_interesting = {TRUE}
  /\ buffer = <<>>
\* C14: the background model is updated exactly once for every frame read,
\* with an empty or a non-empty buffer and after any previous decision: the
\* number of apply calls equals the number of non-null frames read (the id
\* of the last one), and it changes only by one, in the processing step.
C14_ModelUpdatedEveryFrame ==
  /\ [][bgApplied' # bgApplied =>
          /\ pc = "process"
          /\ capture # None
          /\ bgApplied' = bgApplied + 1
          /\ bgApplied' = capture.id]_vars
  /\ [](capture # None =>
          bgApplied = IF pc = "process" THEN capture.id - 1 ELSE capture.id)
  /\ []((capture = None /\ clock > 0) => bgApplied = clock - 1)

W14_UpdatedWhileActive ==
  /\ pc = "rule"
  /\ buffer # <<>>
  /\ was_previous_frame_interesting = {TRUE}
  /\ bgApplied = clock
  /\ clock >= 3
\* C15: a flush is one uninterrupted stretch of the loop: while the writer is
\* open no frame is read, the loop is not left and the capture device is not
\* released; the stretch ends only by releasing the writer after every frame
\* of the buffer has been written, so a 'q' pressed meanwhile takes effect
\* after that, and outside the stretch no writer is left unreleased.
C15_FlushRunsToCompletion ==
  /\ [][pc = "writing" =>
          /\ clock' = clock
          /\ capture' = capture
          /\ buffer' = buffer
          /\ capReleased' = capReleased
          /\ pc' \in {"writing", "clear"}
          /\ pc' = "clear" =>
               /\ videos'[Len(videos')].released
               /\ videos'[Len(videos')].calls = buffer]_vars
  /\ [](\A i \in DOMAIN videos :
          ~videos[i].released => (pc = "writing" /\ i = Len(videos)))
  /\ [](pc = "writing" => ~capReleased)

W15_StopAfterFlush ==
  /\ pc = "release"
  /\ Classified
  /\ endedRun > MinFrames
  /\ Len(videos) = 1
  /\ videos[1].released
  /\ Len(videos[1].calls) = endedRun - 1
\* C16: the time in a video's file name is read during the flush, on the
\* iteration of the first non-motion frame: it is the time of that iteration,
\* one past the last buffered frame and later than the time the session's
\* first frame was buffered; a discarded session (length < 20) creates no file
\* name.
C16_TimestampAtFlush ==
  /\ pc = "writing" =>
       /\ videos[Len(videos)].path = clock
       /\ videos[Len(videos)].path = buffer[Len(buffer)].id + 1
       /\ videos[Len(videos)].path > buffer[1].id
       /\ ~is_current_frame_interesting
  /\ \A i \in DOMAIN videos :
       videos[i].released =>
          /\ videos[i].path = videos[i].calls[Len(videos[i].calls)].id + 1
          /\ videos[i].path >= videos[i].calls[1].id + MinFrames
  /\ (pc \in {"clear", "end"} /\ Classified /\ endedRun >= 1 /\ endedRun <= MinFrames) =>
       \A i \in DOMAIN videos : videos[i].path # clock

W16_NamedAtSessionEnd ==
  /\ pc = "clear"
  /\ Len(buffer) > MinFrames
  /\ Len(videos) = 1
  /\ videos[1].released
  /\ videos[1].path = clock
  /\ videos[1].path = buffer[1].id + Len(buffer)
\* The buffer the code should hold in the current state, from the decision
\* history alone: the frames of the current motion run without its first
\* frame; inside an iteration, before the rule has run (or, for a run that
\* has just ended, before the clear), the run as it stood at the previous frame.
ExpectedBuffer ==
  IF pc \in {"process", "read", "release", "done"} \/ (pc = "end" /\ motionRun >= 1)
  THEN RunWithoutFirst(bgApplied - motionRun + 1, motionRun)
  ELSE IF pc = "rule" /\ motionRun >= 1
  THEN RunWithoutFirst(clock - motionRun + 1, motionRun - 1)
  ELSE IF pc \in {"rule", "flush", "writing", "clear"}
  THEN RunWithoutFirst(clock - endedRun, endedRun)
  ELSE <<>>

\* C17: the buffer is always the current motion run without its first frame,
\* in acquisition order; what is handed to the sink is therefore a sequence of
\* consecutively acquired frames of one run: it starts at the second frame of
\* the run that has just ended and stops at its last frame.
C17_BufferIsCurrentRun ==
  /\ buffer = ExpectedBuffer
  /\ \A v \in DOMAIN videos :
       /\ \A i \in DOMAIN videos[v].calls :
            videos[v].calls[i] = RawFrame(videos[v].calls[1].id + i - 1, camShape)
       /\ videos[v].released => videos[v].calls[Len(videos[v].calls)].id = videos[v].path - 1
  /\ (pc \in {"writing", "clear"} /\ VideosNow # {}) =>
       \A v \in VideosNow :
         /\ videos[v].calls = SubSeq(RunWithoutFirst(clock - endedRun, endedRun), 1,
                                     Len(videos[v].calls))
         /\ Len(videos[v].calls) <= endedRun - 1

W17_RunHandedToSink ==
  /\ pc = "clear"
  /\ endedRun > MinFrames
  /\ clock > endedRun + 1
  /\ Len(videos) = 1
  /\ videos[1].calls = RunWithoutFirst(clock - endedRun, endedRun)
\* C18: a writer is created only on an iteration whose previous decision was
\* motion and whose current decision is not, and at most one per iteration;
\* while a motion run continues the rule adds one frame to the buffer, writes
\* nothing, and the buffer length follows the run length without any cap.
C18_SinkOnlyAtRunEnd ==
  /\ [][videos' # videos =>
          /\ Classified
          /\ ~is_current_frame_interesting
          /\ endedRun >= 1
          /\ motionRun = 0]_vars
  /\ [][Len(videos') # Len(videos) =>
          /\ Len(videos') = Len(videos) + 1
          /\ VideosNow = {}]_vars
  /\ [](Cardinality(VideosNow) <= 1)
  /\ [][(pc = "rule" /\ pc' # "rule" /\ motionRun >= 2) =>
          /\ Len(buffer') = Len(buffer) + 1
          /\ videos' = videos
          /\ pc' = "end"]_vars
  /\ []((IterationEnd /\ motionRun >= 1) => Len(buffer) = motionRun - 1)

W18_BufferGrowsPastMinimum ==
  /\ pc = "read"
  /\ motionRun = MaxFrames
  /\ Len(buffer) = MaxFrames - 1
  /\ Len(buffer) > MinFrames
  /\ videos = <<>>
\* C19: a cleaned mask that is zero everywhere (as the threshold gives for a
\* distance transform that is zero everywhere) has every pixel black and is
\* classified as motion; if the previous frame was motion too, the rule
\* appends the current capture to the buffer.
C19_EmptyMaskIsMotion ==
  /\ []((Classified /\ \A i \in DOMAIN frame.px : frame.px[i] = 0) =>
          /\ 100 * ZeroPixelsFrom(frame.px, 1) = 100 * (frame.shape[1] * frame.shape[2])
          /\ is_current_frame_interesting)
  /\ []((Classified /\ \A i \in DOMAIN dist_transform : dist_transform[i] = 0) =>
          is_current_frame_interesting)
  /\ [][(pc = "rule" /\ pc' # "rule" /\ was_previous_frame_interesting = {TRUE}
           /\ \A i \in DOMAIN frame.px : frame.px[i] = 0) =>
          buffer' = Append(buffer, capture)]_vars

W19_EmptyMaskAppended ==
  /\ pc = "end"
  /\ Classified
  /\ \A i \in DOMAIN dist_transform : dist_transform[i] = 0
  /\ \A i \in DOMAIN frame.px : frame.px[i] = 0
  /\ buffer # <<>>
  /\ buffer[Len(buffer)] = capture
====
